---- MODULE Spec2Model ----
(***************************************************************************)
(* Model of periph/bootstrap: flash.py (image acquisition, privilege       *)
(* escalation, flashing, mounting through udisksctl, provisioning of the   *)
(* mounted trees).  Strings are sequences of tokens; the literal pieces of *)
(* the regular expressions and of the command lines are single tokens.     *)
(***************************************************************************)
EXTENDS Integers, Sequences, FiniteSets, TLC

VARIABLES
  pc,        \* position of the running process (the statement it is at)
  uargs,     \* args parsed by the unprivileged orchestrator
  args,      \* args parsed by the elevated instance
  img,       \* state of the cached image file in the working directory
  zip,       \* state of the downloaded archive in the working directory
  nodes,     \* paths of the partition device nodes that exist for the card
  mounted,   \* partition nodes the disk-management service has mounted
  fs,        \* files of the card's root and boot trees
  outside,   \* files created on the host next to the mount points
  todo,      \* umount(): the sorted glob result still to iterate
  ret,       \* umount(): the local ret
  caller,    \* umount(): the call site it returns to
  boot,      \* as_root(): mount path of the boot partition
  root,      \* as_root(): mount path of the root partition
  polls,     \* flash(): failed existence checks so far
  log,       \* history: what the elevated instance has done in this run
  ulog,      \* history: the unmount commands of the umount() call under way
  exit,      \* exit status of the elevated instance ("none" while running)
  orchExit,  \* exit status of the orchestrator ("none" while running)
  runs,      \* invocations of the program so far
  prev,      \* history: args and resulting trees of the previous run
  txt,       \* mount(): reply text under parsing (reply parsing in isolation)
  mret,      \* mount(): its result for txt
  user,      \* what the operator asked for on the command line
  net,       \* history: downloads started by fetch_img() so far
  pi,        \* the provisioned device: its boots under the RC_LOCAL hook
  avahi,     \* find.py: the output of avahi-browse
  stdout     \* find.py: what it has printed

vars == <<pc, uargs, args, img, zip, nodes, mounted, fs, outside, todo, ret,
          caller, boot, root, polls, log, ulog, exit, orchExit, runs, prev, txt,
          mret, user, net, pi, avahi, stdout>>

---------------------------------------------------------------------------
(* Bounds of the model *)

MaxParts == 2      \* partition nodes 1..MaxParts may pre-exist on the card
MaxPolls == 2      \* failed existence checks modelled in the poll loop
MaxReplyLen == 5   \* tokens in a service reply (reply parsing in isolation)
MaxHomeKeys == 1   \* key files present in ~/.ssh
MaxRuns == 2       \* invocations of the program on the same card
MaxBoots == 4      \* boots of the provisioned device
MaxLines == 3      \* lines of avahi-browse output

---------------------------------------------------------------------------
(* Strings *)

NoneVal == <<"None">>      \* Python's None where a string is expected
Str(s) == <<s>>

Max(S) == CHOOSE m \in S : \A k \in S : k <= m
Min(S) == CHOOSE m \in S : \A k \in S : m <= k

IsPrefix(p, s) == Len(p) <= Len(s) /\ SubSeq(s, 1, Len(p)) = p

Contains(s, tok) == \E i \in 1..Len(s) : s[i] = tok

---------------------------------------------------------------------------
(* Program constants *)

RASPBIAN_JESSIE_LITE_IMG == Str("2017-03-02-raspbian-jessie-lite.img")
RC_LOCAL == "RC_LOCAL"                                   \* the replacement hook
RASPBIAN_FIVE_INCHES_DISPLAY == "RASPBIAN_FIVE_INCHES_DISPLAY"
WPA_SUPPLICANT(ssid, psk) == <<"network={ssid=", ssid, "psk=", psk, "}">>

\* find_public_key(): the names tried, in order
KeyNames == <<"authorized_keys", "id_ed25519.pub", "id_ecdsa.pub", "id_rsa.pub">>

---------------------------------------------------------------------------
(* mount(): parsing of the reply of the service.  Tokens of a reply (the    *)
(* back-tick and the quote are spelled out):                               *)

A_Mounted == "Mounted "
A_at      == " at "
A_already == "is already mounted at <backtick>"
A_quote   == "<quote>"
A_dot     == "."
A_bslash  == "\\"
A_space   == " "
A_sep     == "/"
A_chr     == "x"

Atoms == {A_Mounted, A_at, A_already, A_quote, A_dot, A_bslash, A_space,
          A_sep, A_chr}

HasSpace(a) == a \in {A_Mounted, A_at, A_already, A_space}

NoMatch == [ok |-> FALSE, path |-> <<>>]

\* r1 = 'Mounted (?:[^ ]+) at ([^\\]+)\.' under match(): anchored at the start,
\* [^ ]+ stops at the first blank, ([^\\]+) is greedy and gives back down to
\* the last '.' of the backslash-free run.
r1(t) ==
  LET n == Len(t)
      blanks == {j \in 2..n : HasSpace(t[j])}
      xEnd == IF blanks = {} THEN n + 1 ELSE Min(blanks)
      s == xEnd + 1
      stops == {j \in s..n : t[j] = A_bslash}
      runEnd == IF stops = {} THEN n ELSE Min(stops) - 1
      dots == {d \in (s + 1)..runEnd : t[d] = A_dot}
  IN IF n >= 1 /\ t[1] = A_Mounted /\ xEnd >= 3 /\ xEnd <= n /\ t[xEnd] = A_at
        /\ dots # {}
     THEN [ok |-> TRUE, path |-> SubSeq(t, s, Max(dots) - 1)]
     ELSE NoMatch

\* r2 = "is already mounted at <backtick>([^<quote>]+)<quote>" under match():
\* anchored at the start
r2(t) ==
  LET n == Len(t)
      quotes == {j \in 2..n : t[j] = A_quote}
  IN IF n >= 1 /\ t[1] = A_already /\ quotes # {} /\ Min(quotes) >= 3
     THEN [ok |-> TRUE, path |-> SubSeq(t, 2, Min(quotes) - 1)]
     ELSE NoMatch

\* a mount() that falls back on a conventional path instead of failing
MountResult_Guess(t) ==
  IF r1(t).ok THEN r1(t) ELSE IF r2(t).ok THEN r2(t)
  ELSE [ok |-> TRUE, path |-> <<A_sep, A_chr>>]

\* the loop over (r1, r2); ok = FALSE is "assert False, txt"
MountResult(t) ==
  IF r1(t).ok THEN r1(t) ELSE IF r2(t).ok THEN r2(t) ELSE NoMatch

---------------------------------------------------------------------------
(* Device and partition paths *)

Devices == {<<"/dev/", "sd", "b">>, <<"/dev/", "mmcblk", "0">>}
OtherDisk == <<"/dev/", "sd", "a">>

\* a derivation that knows the sdX convention only
PartPrefix_NoInfix(path) == path

\* "Needs 'p' for /dev/mmcblkN but not for /dev/sdX"
PartPrefix(path) == IF Contains(path, "mmcblk") THEN Append(path, "p") ELSE path

\* flash(): the path polled
PollPath(path) == Append(PartPrefix(path), "2")
\* as_root(): the paths mounted
BootPath(path) == Append(PartPrefix(path), "1")
RootPath(path) == Append(PartPrefix(path), "2")

\* the kernel's name of partition n of a device
KernelNode(dev, n) ==
  IF dev[2] = "mmcblk" THEN dev \o <<"p", ToString(n)>> ELSE Append(dev, ToString(n))

CardParts(dev) == {KernelNode(dev, n) : n \in 1..MaxParts}
\* the image holds a boot and a root partition
ImageParts(dev) == {KernelNode(dev, 1), KernelNode(dev, 2)}

DevDir(dev, nds) == {dev, OtherDisk} \cup nds

\* glob.glob(p + '*')
Glob(dir, p) == {q \in dir : IsPrefix(p, q)}

TokOrder == <<"/dev/", "0", "1", "2", "3", "4", "5", "a", "b", "mmcblk", "p", "sd">>
Rank(tok) == CHOOSE i \in 1..Len(TokOrder) : TokOrder[i] = tok

LexLess(a, b) ==
  \E i \in 1..Len(b) :
    /\ i <= Len(a) + 1
    /\ SubSeq(a, 1, i - 1) = SubSeq(b, 1, i - 1)
    /\ \/ i = Len(a) + 1
       \/ i <= Len(a) /\ Rank(a[i]) < Rank(b[i])

RECURSIVE Sorted(_)
Sorted(S) ==
  IF S = {} THEN <<>>
  ELSE LET m == CHOOSE x \in S : \A y \in S \ {x} : LexLess(x, y)
       IN <<m>> \o Sorted(S \ {m})

---------------------------------------------------------------------------
(* Command line *)

\* find_public_key(): home is the set of names present in $HOME/.ssh
find_public_key(home) ==
  LET hits == {i \in 1..Len(KeyNames) : KeyNames[i] \in home}
  IN IF hits = {} THEN NoneVal ELSE <<"~/.ssh/", KeyNames[Min(hits)]>>

DefaultArgs(default_key) ==
  [as_root |-> FALSE, img |-> NoneVal, ssh_key |-> default_key,
   distro |-> NoneVal, wifi |-> <<>>, five_inches |-> FALSE,
   skip_flash |-> FALSE, path |-> NoneVal, user |-> Str("debian")]

RECURSIVE ParseFrom(_, _, _)
ParseFrom(argv, i, acc) ==
  IF i > Len(argv) THEN acc
  ELSE CASE argv[i] = Str("--as-root") ->
              ParseFrom(argv, i + 1, [acc EXCEPT !.as_root = TRUE])
         [] argv[i] = Str("--img") ->
              ParseFrom(argv, i + 2, [acc EXCEPT !.img = argv[i + 1]])
         [] argv[i] = Str("--ssh-key") ->
              ParseFrom(argv, i + 2, [acc EXCEPT !.ssh_key = argv[i + 1]])
         [] argv[i] = Str("--distro") ->
              ParseFrom(argv, i + 2, [acc EXCEPT !.distro = argv[i + 1]])
         [] argv[i] = Str("--wifi") ->
              ParseFrom(argv, i + 3, [acc EXCEPT !.wifi = <<argv[i + 1], argv[i + 2]>>])
         [] argv[i] = Str("--5inch") ->
              ParseFrom(argv, i + 1, [acc EXCEPT !.five_inches = TRUE])
         [] argv[i] = Str("--skip-flash") ->
              ParseFrom(argv, i + 1, [acc EXCEPT !.skip_flash = TRUE])
         [] OTHER ->
              ParseFrom(argv, i + 1, [acc EXCEPT !.path = argv[i]])

\* parser.parse_args() followed by the choice of args.user
ParseArgs(argv, default_key) ==
  LET a == ParseFrom(argv, 1, DefaultArgs(default_key))
  IN [a EXCEPT !.user = IF a.distro = Str("raspbian") THEN Str("pi")
                        ELSE IF a.distro = Str("chip") THEN Str("chip")
                        ELSE Str("debian")]

\* main(): the argument vector handed to sudo (after the script's own path)
BuildCmd(a, imgname) ==
  <<Str("--as-root"), Str("--distro"), a.distro, Str("--ssh-key"), a.ssh_key,
    Str("--img"), imgname>>
  \o (IF a.wifi # <<>> THEN <<Str("--wifi"), a.wifi[1], a.wifi[2]>> ELSE <<>>)
  \o (IF a.five_inches THEN <<Str("--5inch")>> ELSE <<>>)
  \o (IF a.skip_flash THEN <<Str("--skip-flash")>> ELSE <<>>)
  \o <<a.path>>

\* what the operator types
UserArgv(key, wifi, five, skip, dev) ==
  <<Str("--distro"), Str("raspbian")>>
  \o (IF key # NoneVal THEN <<Str("--ssh-key"), key>> ELSE <<>>)
  \o (IF wifi # <<>> THEN <<Str("--wifi"), wifi[1], wifi[2]>> ELSE <<>>)
  \o (IF five THEN <<Str("--5inch")>> ELSE <<>>)
  \o (IF skip THEN <<Str("--skip-flash")>> ELSE <<>>)
  \o <<dev>>

\* a truthy Python value: neither None nor the empty string / list
Truthy(v) == v # NoneVal /\ v # <<>>

---------------------------------------------------------------------------
(* Files of the card *)

Absent == <<"(absent)">>
StockPasswordLine == "#PasswordAuthentication yes"

\* the trees of the stock image, as dd leaves them on the card
ImageFs ==
  [firstboot       |-> Absent,
   rc_local        |-> <<"stock rc.local">>,
   rc_local_old    |-> Absent,
   sshdir          |-> FALSE,
   authorized_keys |-> Absent,
   sshd_config     |-> <<StockPasswordLine>>,
   supplicant      |-> <<"stock wpa_supplicant.conf">>,
   config_txt      |-> <<"stock config.txt">>,
   boot_ssh        |-> Absent]

\* a card whose write was cut short
BrokenFs ==
  [firstboot |-> Absent, rc_local |-> Absent, rc_local_old |-> Absent,
   sshdir |-> FALSE, authorized_keys |-> Absent, sshd_config |-> Absent,
   supplicant |-> Absent, config_txt |-> Absent, boot_ssh |-> Absent]

\* sed -i 's/#PasswordAuthentication yes/PasswordAuthentication no/'
Sed(content) ==
  [i \in DOMAIN content |->
     IF content[i] = StockPasswordLine THEN "PasswordAuthentication no"
     ELSE content[i]]

KeyContent(key) == <<"content of">> \o key

---------------------------------------------------------------------------
(* History *)

Ev(op, path, ok) == [op |-> op, path |-> path, ok |-> ok, arg |-> <<>>]
EvArg(op, path, ok, arg) == [Ev(op, path, ok) EXCEPT !.arg = arg]
W(file) == EvArg("write", <<>>, TRUE, <<file>>)

NoPrev ==
  [done |-> FALSE, args |-> DefaultArgs(NoneVal), fs |-> ImageFs, outside |-> {},
   boot |-> <<>>, root |-> <<>>]

---------------------------------------------------------------------------
(* Inputs *)

KeyFlags == {NoneVal, <<>>, <<"/home/op/", "my.pub">>}     \* NoneVal: no --ssh-key
WifiFlags == {<<>>, <<Str("Home"), Str("secret")>>}        \* <<>>: no --wifi
\* the key files present in ~/.ssh are among the last MaxHomeKeys candidates
HomeDirs ==
  SUBSET {KeyNames[i] : i \in (Len(KeyNames) - MaxHomeKeys + 1)..Len(KeyNames)}

Users ==
  [key : KeyFlags, wifi : WifiFlags, five : BOOLEAN, skip : BOOLEAN, dev : Devices]

\* replies of the service the runs are exercised with
ServiceReplies ==
  { <<A_Mounted, A_chr, A_at, A_sep, A_chr, A_dot>>,
    <<A_chr, A_space, A_already, A_sep, A_chr, A_quote, A_dot>>,
    <<A_already, A_sep, A_chr, A_sep, A_quote, A_dot>>,
    <<A_chr, A_space, A_chr>> }

\* the provisioned device before its first boot: no /var/log/firstboot.log
NotBooted ==
  [at |-> "off", logfile |-> FALSE, script |-> "no", tee |-> FALSE,
   starts |-> 0, boots |-> 0]

---------------------------------------------------------------------------
(* Initial state: the operator has typed a command line; the card sits in   *)
(* the reader with some partition nodes, some of them mounted.              *)

Init ==
  /\ pc = "main"
  /\ user \in Users
  /\ uargs = DefaultArgs(NoneVal)
  /\ args = DefaultArgs(NoneVal)
  /\ img \in {"absent", "complete"}
  /\ zip = "absent"
  /\ nodes \in SUBSET CardParts(user.dev)
  /\ mounted \in SUBSET nodes
  /\ fs = ImageFs
  /\ outside = {}
  /\ todo = <<>>
  /\ ret = TRUE
  /\ caller = "none"
  /\ boot = <<>>
  /\ root = <<>>
  /\ polls = 0
  /\ log = <<>>
  /\ ulog = <<>>
  /\ exit = "none"
  /\ orchExit = "none"
  /\ runs = 1
  /\ prev = NoPrev
  /\ txt = <<>>
  /\ mret = NoMatch
  /\ net = 0
  /\ pi = NotBooted
  /\ avahi = <<>>
  /\ stdout = <<>>

elevVars == <<args, todo, ret, caller, boot, root, polls, log, ulog, exit>>
cardVars == <<nodes, mounted, fs, outside>>
parseVars == <<txt, mret>>
histVars == <<runs, prev, user>>
otherVars == <<pi, avahi, stdout>>

---------------------------------------------------------------------------
(* The unprivileged orchestrator: main() *)

\* main(): parse_args()
Main ==
  /\ pc = "main"
  /\ \E home \in HomeDirs :
       uargs' = ParseArgs(UserArgv(user.key, user.wifi, user.five, user.skip,
                                   user.dev),
                          find_public_key(home))
  /\ pc' = "fetch_img"
  /\ UNCHANGED <<img, zip, net, orchExit>>
  /\ UNCHANGED <<elevVars, cardVars, parseVars, histVars, otherVars>>

OrchFails ==
  /\ pc' = "orch_failed"
  /\ orchExit' = "nonzero"

\* a fetch_img() that never finds the cached image
Cached_Never(i) == FALSE

\* fetch_img(): os.path.isfile(imgname), whatever the file holds
Cached(i) == i # "absent"

\* fetch_img(args): the image file is there
FetchCached ==
  /\ pc = "fetch_img"
  /\ Cached(img)
  /\ pc' = "sudo"
  /\ UNCHANGED <<img, zip, net, orchExit>>

\* fetch_img(args): curl exits non-zero
FetchDownloadFails ==
  /\ pc = "fetch_img"
  /\ ~Cached(img)
  /\ net' = net + 1
  /\ zip' \in {"absent", "partial"}
  /\ UNCHANGED img
  /\ OrchFails

\* fetch_img(args): ZipFile() or extract() raises, or the process is
\* interrupted while extract() writes the image file
FetchExtractFails ==
  /\ pc = "fetch_img"
  /\ ~Cached(img)
  /\ net' = net + 1
  /\ zip' = "complete"
  /\ img' \in {"absent", "partial"}
  /\ OrchFails

\* fetch_img(args): download, extract, os.remove(zipname)
FetchOk ==
  /\ pc = "fetch_img"
  /\ ~Cached(img)
  /\ net' = net + 1
  /\ img' = "complete"
  /\ zip' = "absent"
  /\ pc' = "sudo"
  /\ UNCHANGED orchExit

FetchImg ==
  /\ FetchCached \/ FetchDownloadFails \/ FetchExtractFails \/ FetchOk
  /\ UNCHANGED uargs
  /\ UNCHANGED <<elevVars, cardVars, parseVars, histVars, otherVars>>

\* an as_root() that flashes whatever the flag
AsRootEntry_AlwaysFlash(skip_flash) == "flash_umount"

\* as_root(): "if not args.skip_flash: flash(args)"
AsRootEntry(skip_flash) == IF skip_flash THEN "root_umount" ELSE "flash_umount"

\* main(): build cmd and subprocess.call(cmd); the elevated instance parses it
Sudo ==
  /\ pc = "sudo"
  /\ LET cmd == BuildCmd(uargs, RASPBIAN_JESSIE_LITE_IMG)
     IN IF \E i \in 1..Len(cmd) : cmd[i] = NoneVal
        THEN \* execv() takes strings only: TypeError in the orchestrator
             /\ OrchFails
             /\ UNCHANGED <<args, log, exit>>
        ELSE /\ \E home \in HomeDirs :
                  args' = ParseArgs(cmd, find_public_key(home))
             /\ pc' = AsRootEntry(args'.skip_flash)
             /\ log' = <<>>
             /\ exit' = "none"
             /\ UNCHANGED orchExit
  /\ UNCHANGED <<uargs, img, zip, net, todo, ret, caller, boot, root, polls, ulog>>
  /\ UNCHANGED <<cardVars, parseVars, histVars, otherVars>>

---------------------------------------------------------------------------
(* The elevated instance: as_root(args) *)

\* the /dev directory as the elevated instance sees it
Dev == DevDir(user.dev, nodes)

\* an uncaught exception ends the process with status 1; return 0 with 0;
\* subprocess.call(cmd) hands the status to the orchestrator
Goto(next) ==
  /\ pc' = next
  /\ exit' = CASE next = "failed" -> "nonzero" [] next = "done" -> "zero" [] OTHER -> exit
  /\ orchExit' = CASE next = "failed" -> "nonzero" [] next = "done" -> "zero"
                   [] OTHER -> orchExit

\* a check_call() that drops the exit status
AfterCall_Ignore(ok, next) == next

\* check_call(): subprocess.check_call raises on a non-zero exit
AfterCall(ok, next) == IF ok THEN next ELSE "failed"

\* a flash() that flushes before it writes
FlashSucc_FlushFirst(step) ==
  CASE step = "flash_umount" -> "sync1"
    [] step = "sync1"        -> "dd"
    [] step = "dd"           -> "partprobe"
    [] step = "partprobe"    -> "sync2"
    [] step = "sync2"        -> "sleep1"
    [] step = "sleep1"       -> "poll_stat"
    [] step = "poll_sleep"   -> "poll_stat"

\* flash(): the order of its statements
FlashSucc(step) ==
  CASE step = "flash_umount" -> "dd"
    [] step = "dd"           -> "sync1"
    [] step = "sync1"        -> "partprobe"
    [] step = "partprobe"    -> "sync2"
    [] step = "sync2"        -> "sleep1"
    [] step = "sleep1"       -> "poll_stat"
    [] step = "poll_sleep"   -> "poll_stat"

\* a poll loop that gives up after its first check
PollDone_GiveUp(exists) == TRUE

\* flash(): the loop ends ("break") when os.stat did not raise
PollDone(exists) == exists

\* an as_root() that mounts right after flash(), without its umount()
AsRootSucc_NoUmount(step) ==
  CASE step = "flash"        -> "mount_boot"
    [] step = "root_umount"  -> "mount_boot"
    [] step = "mount_boot"   -> "mount_root"
    [] step = "mount_root"   -> "first_boot"
    [] step = "final_sync"   -> "final_umount"
    [] step = "final_umount" -> "done"

\* as_root(): the order of its statements around the Provisioner
AsRootSucc(step) ==
  CASE step = "flash"        -> "root_umount"
    [] step = "root_umount"  -> "mount_boot"
    [] step = "mount_boot"   -> "mount_root"
    [] step = "mount_root"   -> "first_boot"
    [] step = "final_sync"   -> "final_umount"
    [] step = "final_umount" -> "done"

\* an as_root() that enables the display whatever the flag
ProvSteps_AlwaysFive(a) ==
  <<"first_boot", "five">>
  \o (IF Truthy(a.ssh_key) THEN <<"ssh">> ELSE <<>>)
  \o (IF Truthy(a.wifi) THEN <<"wifi">> ELSE <<>>)
  \o <<"final_sync">>

\* as_root(): the Provisioner steps the flags select, in order
ProvSteps(a) ==
  <<"first_boot">>
  \o (IF a.five_inches THEN <<"five">> ELSE <<>>)
  \o (IF Truthy(a.ssh_key) THEN <<"ssh">> ELSE <<>>)
  \o (IF Truthy(a.wifi) THEN <<"wifi">> ELSE <<>>)
  \o <<"final_sync">>

ProvSucc(step, a) ==
  LET steps == ProvSteps(a)
      i == CHOOSE k \in 1..Len(steps) : steps[k] = step
  IN steps[i + 1]

\* an umount() whose ret follows the last command only
UmountRet_LastOnly(r, ok) == ok

\* umount(): "ret = False" in the except branch
UmountRet(r, ok) == r /\ ok

\* umount(p): ret = True; the sorted glob
UmountBegin ==
  /\ pc \in {"flash_umount", "root_umount", "final_umount"}
  /\ caller' = pc
  /\ ret' = TRUE
  /\ todo' = Sorted(Glob(Dev, args.path))
  /\ ulog' = <<>>
  /\ log' = Append(log, EvArg("umount_begin", args.path, TRUE,
                                <<todo', Sorted(nodes)>>))
  /\ Goto("umount_loop")
  /\ UNCHANGED <<args, boot, root, polls>>
  /\ UNCHANGED <<uargs, img, zip, net, cardVars, parseVars, histVars, otherVars>>

\* umount(p): one iteration of the for loop
UmountStep ==
  /\ pc = "umount_loop"
  /\ todo # <<>>
  /\ todo' = Tail(todo)
  /\ LET i == Head(todo)
     IN IF i # args.path
        THEN \E ok \in BOOLEAN :
               /\ ulog' = Append(ulog, Ev("unmount", i, ok))
               /\ ret' = UmountRet(ret, ok)
               /\ mounted' = IF ok THEN mounted \ {i} ELSE mounted
        ELSE UNCHANGED <<ulog, ret, mounted>>
  /\ UNCHANGED <<pc, exit, orchExit, args, caller, boot, root, polls, log>>
  /\ UNCHANGED <<uargs, img, zip, net, nodes, fs, outside, parseVars, histVars, otherVars>>

\* umount(p): return ret; no caller keeps the value, the locals are gone
UmountReturn ==
  /\ pc = "umount_loop"
  /\ todo = <<>>
  /\ log' = Append(log, EvArg("umount_ret", args.path, TRUE, <<caller>>))
  /\ ulog' = <<>>
  /\ ret' = TRUE
  /\ caller' = "none"
  /\ Goto(IF caller = "flash_umount" THEN FlashSucc(caller) ELSE AsRootSucc(caller))
  /\ UNCHANGED <<args, todo, boot, root, polls>>
  /\ UNCHANGED <<uargs, img, zip, net, cardVars, parseVars, histVars, otherVars>>

\* flash(): check_call('dd', 'bs=4M', 'if=' + args.img, 'of=' + args.path)
Dd ==
  /\ pc = "dd"
  /\ \E ok \in BOOLEAN :
       /\ log' = Append(log, Ev("dd", args.path, ok))
       /\ fs' = IF ok THEN ImageFs ELSE BrokenFs
       /\ Goto(AfterCall(ok, FlashSucc("dd")))
  /\ UNCHANGED <<args, todo, ret, caller, boot, root, polls, ulog>>
  /\ UNCHANGED <<uargs, img, zip, net, nodes, mounted, outside, parseVars, histVars, otherVars>>

\* check_call('sync') at one of its three places
Sync(at, next) ==
  /\ pc = at
  /\ \E ok \in BOOLEAN :
       /\ log' = Append(log, EvArg("sync", <<>>, ok, <<at>>))
       /\ Goto(AfterCall(ok, next))
  /\ UNCHANGED <<args, todo, ret, caller, boot, root, polls, ulog>>
  /\ UNCHANGED <<uargs, img, zip, net, cardVars, parseVars, histVars, otherVars>>

Sync1 == Sync("sync1", FlashSucc("sync1"))
Sync2 == Sync("sync2", FlashSucc("sync2"))
FinalSync == Sync("final_sync", AsRootSucc("final_sync"))

\* flash(): check_call('partprobe', args.path); the kernel drops the old
\* partition nodes and the nodes of the new table show up in their own time
Partprobe ==
  /\ pc = "partprobe"
  /\ \E ok \in BOOLEAN :
       /\ log' = Append(log, Ev("partprobe", args.path, ok))
       /\ IF ok
          THEN /\ nodes' \in SUBSET ImageParts(user.dev)
               /\ mounted' = mounted \cap nodes'
          ELSE UNCHANGED <<nodes, mounted>>
       /\ Goto(AfterCall(ok, FlashSucc("partprobe")))
  /\ UNCHANGED <<args, todo, ret, caller, boot, root, polls, ulog>>
  /\ UNCHANGED <<uargs, img, zip, net, fs, outside, parseVars, histVars, otherVars>>

\* time.sleep(1), before the loop and in its except branch
Sleep ==
  /\ pc \in {"sleep1", "poll_sleep"}
  /\ log' = Append(log, Ev("sleep", <<>>, TRUE))
  /\ Goto(FlashSucc(pc))
  /\ UNCHANGED <<args, todo, ret, caller, boot, root, polls, ulog>>
  /\ UNCHANGED <<uargs, img, zip, net, cardVars, parseVars, histVars, otherVars>>

\* flash(): os.stat(path) in the while loop
PollStat ==
  /\ pc = "poll_stat"
  /\ LET path == PollPath(args.path)
         exists == path \in Dev
     IN /\ log' = Append(log, Ev("stat", path, exists))
        /\ IF PollDone(exists)
           THEN /\ Goto(AsRootSucc("flash"))
                /\ UNCHANGED polls
           ELSE /\ polls < MaxPolls
                /\ polls' = polls + 1
                /\ Goto("poll_sleep")
  /\ UNCHANGED <<args, todo, ret, caller, boot, root, ulog>>
  /\ UNCHANGED <<uargs, img, zip, net, cardVars, parseVars, histVars, otherVars>>

\* mount(path): check_output('/usr/bin/udisksctl', 'mount', '-b', path) and
\* the parsing of its reply
Mount(at, path) ==
  /\ pc = at
  /\ \/ \* udisksctl exits non-zero: check_output raises CalledProcessError
        /\ log' = Append(log, Ev("mount", path, FALSE))
        /\ Goto("failed")
        /\ UNCHANGED <<boot, root, mounted>>
     \/ \* udisksctl exits zero and prints t
        /\ path \in Dev
        /\ \E t \in ServiceReplies :
             LET r == MountResult(t)
             IN /\ log' = Append(log, EvArg("mount", path, TRUE, t))
                /\ mounted' = mounted \cup {path}
                /\ IF r.ok
                   THEN /\ Goto(AsRootSucc(at))
                        /\ boot' = IF at = "mount_boot" THEN r.path ELSE boot
                        /\ root' = IF at = "mount_root" THEN r.path ELSE root
                   ELSE /\ Goto("failed")            \* assert False, txt
                        /\ UNCHANGED <<boot, root>>
  /\ UNCHANGED <<args, todo, ret, caller, polls, ulog>>
  /\ UNCHANGED <<uargs, img, zip, net, nodes, fs, outside, parseVars, histVars, otherVars>>

MountBoot == Mount("mount_boot", BootPath(args.path))
MountRoot == Mount("mount_root", RootPath(args.path))

\* setup_first_boot(args, root, boot)
SetupFirstBoot ==
  /\ pc = "first_boot"
  /\ LET copied == [fs EXCEPT !.firstboot = <<"setup.sh">>]
     IN IF fs.rc_local = Absent
        THEN \* os.rename raises OSError
             /\ fs' = copied
             /\ log' = log \o <<W("firstboot")>>
             /\ Goto("failed")
        ELSE /\ fs' = [copied EXCEPT !.rc_local_old = fs.rc_local,
                                     !.rc_local = <<RC_LOCAL>>]
             /\ log' = log \o <<W("firstboot"), W("rc_local_old"), W("rc_local")>>
             /\ Goto(ProvSucc("first_boot", args))
  /\ UNCHANGED <<args, todo, ret, caller, boot, root, polls, ulog>>
  /\ UNCHANGED <<uargs, img, zip, net, nodes, mounted, outside, parseVars, histVars, otherVars>>

\* enable_5inches(args, root, boot): open(config.txt, 'wb') and write
Enable5 ==
  /\ pc = "five"
  /\ IF args.distro = Str("raspbian")
     THEN /\ fs' = [fs EXCEPT !.config_txt = <<RASPBIAN_FIVE_INCHES_DISPLAY>>]
          /\ log' = log \o <<W("config_txt")>>
          /\ Goto(ProvSucc("five", args))
     ELSE /\ Goto("failed")                          \* assert False, args.distro
          /\ UNCHANGED <<fs, log>>
  /\ UNCHANGED <<args, todo, ret, caller, boot, root, polls, ulog>>
  /\ UNCHANGED <<uargs, img, zip, net, nodes, mounted, outside, parseVars, histVars, otherVars>>

\* setup_ssh(args, root, boot); o says where it stops
SetupSsh ==
  /\ pc = "ssh"
  /\ LET made   == [fs EXCEPT !.sshdir = TRUE]
         copied == [made EXCEPT !.authorized_keys = KeyContent(args.ssh_key)]
         sedded == [copied EXCEPT !.sshd_config = Sed(fs.sshd_config)]
         inboot == boot # <<>> /\ boot[Len(boot)] = A_sep
     IN \/ \* shutil.copyfile cannot read args.ssh_key
           /\ fs' = made
           /\ log' = log \o <<W("sshdir")>>
           /\ Goto("failed")
           /\ UNCHANGED outside
        \/ \* chown exits non-zero
           /\ Truthy(args.ssh_key)
           /\ fs' = copied
           /\ log' = log \o <<W("sshdir"), W("authorized_keys")>>
           /\ Goto("failed")
           /\ UNCHANGED outside
        \/ \* sed exits non-zero
           /\ Truthy(args.ssh_key)
           /\ fs' = copied
           /\ log' = log \o <<W("sshdir"), W("authorized_keys")>>
           /\ Goto("failed")
           /\ UNCHANGED outside
        \/ /\ Truthy(args.ssh_key)
           /\ fs.sshd_config # Absent
           /\ IF args.distro = Str("raspbian")
              THEN \* open(os.path.join(boot + 'ssh'), 'wb').close()
                   /\ fs' = IF inboot THEN [sedded EXCEPT !.boot_ssh = <<>>] ELSE sedded
                   /\ outside' = IF inboot THEN outside
                                 ELSE outside \cup {Append(boot, "ssh")}
                   /\ log' = log \o <<W("sshdir"), W("authorized_keys"),
                                      W("sshd_config"), W("ssh_marker")>>
              ELSE /\ fs' = sedded
                   /\ UNCHANGED outside
                   /\ log' = log \o <<W("sshdir"), W("authorized_keys"),
                                      W("sshd_config")>>
           /\ Goto(ProvSucc("ssh", args))
  /\ UNCHANGED <<args, todo, ret, caller, boot, root, polls, ulog>>
  /\ UNCHANGED <<uargs, img, zip, net, nodes, mounted, parseVars, histVars, otherVars>>

\* setup_wifi(args, root, boot)
SetupWifi ==
  /\ pc = "wifi"
  /\ IF Len(args.wifi) = 2
     THEN /\ fs' = [fs EXCEPT !.supplicant = WPA_SUPPLICANT(args.wifi[1], args.wifi[2])]
          /\ log' = log \o <<W("supplicant")>>
          /\ Goto(ProvSucc("wifi", args))
     ELSE /\ Goto("failed")                          \* args.wifi[0] raises
          /\ UNCHANGED <<fs, log>>
  /\ UNCHANGED <<args, todo, ret, caller, boot, root, polls, ulog>>
  /\ UNCHANGED <<uargs, img, zip, net, nodes, mounted, outside, parseVars, histVars, otherVars>>

---------------------------------------------------------------------------
(* The environment *)

Reloaded == \E i \in 1..Len(log) : log[i].op = "partprobe" /\ log[i].ok

ElevatedRunning ==
  pc \notin {"main", "fetch_img", "sudo", "orch_failed", "failed", "done",
             "parse", "parsed"}

\* after the table reload the kernel creates the node of a partition of the
\* image; a desktop session may mount it at once
NodeAppears ==
  /\ ElevatedRunning
  /\ Reloaded
  /\ \E p \in ImageParts(user.dev) \ nodes :
       /\ nodes' = nodes \cup {p}
       /\ \E auto \in BOOLEAN : mounted' = IF auto THEN mounted \cup {p} ELSE mounted
  /\ UNCHANGED <<pc, uargs, img, zip, net, orchExit, fs, outside>>
  /\ UNCHANGED <<elevVars, parseVars, histVars, otherVars>>

\* after a completed run or a failed acquisition the operator runs the
\* program again on the same card with the same options, with or without
\* --skip-flash
Rerun ==
  /\ pc \in {"done", "orch_failed"}
  /\ runs < MaxRuns
  /\ runs' = runs + 1
  /\ prev' = [done |-> pc = "done", args |-> args, fs |-> fs, outside |-> outside,
               boot |-> boot, root |-> root]
  /\ \E s \in BOOLEAN : user' = [user EXCEPT !.skip = s]
  /\ pc' = "main"
  /\ uargs' = DefaultArgs(NoneVal)
  /\ args' = DefaultArgs(NoneVal)
  /\ todo' = <<>>
  /\ ret' = TRUE
  /\ caller' = "none"
  /\ boot' = <<>>
  /\ root' = <<>>
  /\ polls' = 0
  /\ log' = <<>>
  /\ ulog' = <<>>
  /\ exit' = "none"
  /\ orchExit' = "none"
  /\ UNCHANGED <<img, zip, net, cardVars, parseVars, otherVars>>

---------------------------------------------------------------------------
(* Specifications *)

Program ==
  \/ Main \/ FetchImg \/ Sudo
  \/ UmountBegin \/ UmountStep \/ UmountReturn
  \/ Dd \/ Sync1 \/ Partprobe \/ Sync2 \/ Sleep \/ PollStat
  \/ MountBoot \/ MountRoot
  \/ SetupFirstBoot \/ Enable5 \/ SetupSsh \/ SetupWifi
  \/ FinalSync

Next == Program \/ NodeAppears

Spec == Init /\ [][Next]_vars

\* several invocations on the same card
NextRerun == Next \/ Rerun
SpecRerun == Init /\ [][NextRerun]_vars

\* the process keeps running: every call it makes returns
LiveSpec == Spec /\ WF_vars(Program)

\* the orchestrator alone: the operator starts the program again after a
\* failed acquisition, or after giving up at the prompt of sudo
Refetch ==
  /\ pc \in {"sudo", "orch_failed"}
  /\ runs < MaxRuns
  /\ runs' = runs + 1
  /\ pc' = "main"
  /\ uargs' = DefaultArgs(NoneVal)
  /\ orchExit' = "none"
  /\ UNCHANGED <<img, zip, net, prev, user>>
  /\ UNCHANGED <<elevVars, cardVars, parseVars, otherVars>>

NextAcquire == Main \/ FetchImg \/ Refetch
SpecAcquire == Init /\ [][NextAcquire]_vars

---------------------------------------------------------------------------
(* The provisioned device: boots under the hook RC_LOCAL                    *)
(*   LOG_FILE=/var/log/firstboot.log                                        *)
(*   if [ ! -f $LOG_FILE ]; then /root/firstboot.sh 2>&1 | tee $LOG_FILE; fi *)
(*   exit 0                                                                 *)

\* the card as setup_first_boot() leaves it
Provisioned ==
  [ImageFs EXCEPT !.firstboot = <<"setup.sh">>,
                  !.rc_local_old = ImageFs.rc_local,
                  !.rc_local = <<RC_LOCAL>>]

\* every variable of flash.py and find.py at rest
AtRest ==
  /\ uargs = DefaultArgs(NoneVal)
  /\ args = DefaultArgs(NoneVal)
  /\ img = "complete"
  /\ zip = "absent"
  /\ nodes = {}
  /\ mounted = {}
  /\ outside = {}
  /\ todo = <<>>
  /\ ret = TRUE
  /\ caller = "none"
  /\ boot = <<>>
  /\ root = <<>>
  /\ polls = 0
  /\ log = <<>>
  /\ ulog = <<>>
  /\ exit = "none"
  /\ orchExit = "none"
  /\ runs = 1
  /\ prev = NoPrev
  /\ txt = <<>>
  /\ mret = NoMatch
  /\ net = 0
  /\ user = [key |-> NoneVal, wifi |-> <<>>, five |-> FALSE, skip |-> FALSE,
             dev |-> <<"/dev/", "sd", "b">>]

InitBoot ==
  /\ pc = "booting"
  /\ fs = Provisioned
  /\ pi = NotBooted
  /\ avahi = <<>>
  /\ stdout = <<>>
  /\ AtRest

BootFrame ==
  /\ UNCHANGED <<pc, uargs, img, zip, net, orchExit, avahi, stdout>>
  /\ UNCHANGED <<elevVars, cardVars, parseVars, histVars>>

\* the device is powered and init runs /etc/rc.local, the replacement hook
PowerOn ==
  /\ pi.at = "off"
  /\ pi.boots < MaxBoots
  /\ fs.rc_local = <<RC_LOCAL>>
  /\ pi' = [pi EXCEPT !.at = "test", !.boots = @ + 1]
  /\ BootFrame

\* RC_LOCAL: [ ! -f $LOG_FILE ]
LogAbsent(p) == ~p.logfile

\* RC_LOCAL: the if; without the log file the shell forks the pipeline
HookTest ==
  /\ pi.at = "test"
  /\ pi' = [pi EXCEPT !.at = IF LogAbsent(pi) THEN "pipe" ELSE "exit0"]
  /\ BootFrame

\* RC_LOCAL: the left side of the pipeline, /root/firstboot.sh, starts
PipeScript ==
  /\ pi.at = "pipe"
  /\ pi.script = "no"
  /\ pi' = [pi EXCEPT !.script = "running", !.starts = @ + 1]
  /\ BootFrame

\* RC_LOCAL: the right side of the pipeline, tee, opens (creates) $LOG_FILE;
\* the shell starts the two sides concurrently
PipeTee ==
  /\ pi.at = "pipe"
  /\ ~pi.tee
  /\ pi' = [pi EXCEPT !.tee = TRUE, !.logfile = TRUE]
  /\ BootFrame

\* /root/firstboot.sh exits
ScriptEnds ==
  /\ pi.at = "pipe"
  /\ pi.script = "running"
  /\ pi' = [pi EXCEPT !.script = "ended"]
  /\ BootFrame

\* RC_LOCAL: the pipeline is over, fi, exit 0
HookExit ==
  /\ pi.at = "pipe"
  /\ pi.script = "ended"
  /\ pi.tee
  /\ pi' = [pi EXCEPT !.at = "exit0"]
  /\ BootFrame

\* a crash, a power loss or a shutdown at any point: the processes are gone,
\* the files stay as they are
PowerOff ==
  /\ pi.at # "off"
  /\ pi' = [pi EXCEPT !.at = "off", !.script = "no", !.tee = FALSE]
  /\ BootFrame

NextBoot ==
  PowerOn \/ HookTest \/ PipeScript \/ PipeTee \/ ScriptEnds \/ HookExit \/ PowerOff

SpecBoot == InitBoot /\ [][NextBoot]_vars

---------------------------------------------------------------------------
(* find.py: the report of avahi-browse -t _workstation._tcp -r -p           *)

A_nl == "\n"
A_semi == ";"

\* what the utility knows of a service: a resolved record ("=") or the
\* announcement of a new service ("+")
Records ==
  {r \in [kind : {"=", "+"}, proto : {"IPv4", "IPv6"}, host : {"pi1", "pi2"},
          addr : {"10.0.0.7", "fe80::7"}] :
     r.kind = "+" => (r.host = "pi1" /\ r.addr = "10.0.0.7")}

\* the line the utility prints for a record in its parsable format
Emit(r) ==
  <<r.kind, A_semi, "eth0", A_semi, r.proto, A_semi, "name", A_semi,
    "_workstation._tcp", A_semi, "local">>
  \o (IF r.kind = "=" THEN <<A_semi, r.host, A_semi, r.addr, A_semi, "9", A_semi,
                             "txt">>
      ELSE <<>>)

\* the utility's output: every line ends with a newline
RECURSIVE Text(_)
Text(rs) == IF rs = <<>> THEN <<>> ELSE Emit(Head(rs)) \o <<A_nl>> \o Text(Tail(rs))

\* s.split(sep): the pieces between the separators, the last one included
RECURSIVE Split(_, _)
Split(s, sep) ==
  LET hits == {i \in 1..Len(s) : s[i] = sep}
  IN IF hits = {} THEN <<s>>
     ELSE <<SubSeq(s, 1, Min(hits) - 1)>>
          \o Split(SubSeq(s, Min(hits) + 1, Len(s)), sep)

\* out.splitlines(): no empty piece after the final newline
SplitLines(s) ==
  IF s = <<>> THEN <<>>
  ELSE IF s[Len(s)] = A_nl THEN Split(SubSeq(s, 1, Len(s) - 1), A_nl)
  ELSE Split(s, A_nl)

\* sep.join(ls)
RECURSIVE Join(_, _)
Join(ls, sep) ==
  IF ls = <<>> THEN <<>>
  ELSE IF Len(ls) = 1 THEN ls[1]
  ELSE ls[1] \o <<sep>> \o Join(Tail(ls), sep)

\* l.startswith('=')
StartsWithEq(l) == l # <<>> /\ l[1] = "="

\* a report that takes every resolved record
Keep_All(f) == TRUE

\* main(): l[2] == 'IPv4'
Keep(f) == f[3] = <<"IPv4">>

\* main(): '%s: %s' % (i[6], i[7])
Format(f) == f[7] \o <<": ">> \o f[8]

\* main(): the two list comprehensions and the text handed to print()
Report(out) ==
  LET starts == SelectSeq(SplitLines(out), StartsWithEq)
      lines1 == [i \in 1..Len(starts) |-> Split(starts[i], A_semi)]
      lines2 == SelectSeq(lines1, Keep)
  IN Join([i \in 1..Len(lines2) |-> Format(lines2[i])], A_nl)

InitFind ==
  /\ pc = "find_main"
  /\ avahi \in UNION {[1..n -> Records] : n \in 0..MaxLines}
  /\ stdout = <<>>
  /\ fs = ImageFs
  /\ pi = NotBooted
  /\ AtRest

\* main() of find.py: print() ends what it writes with a newline
FindMain ==
  /\ pc = "find_main"
  /\ stdout' = Report(Text(avahi)) \o <<A_nl>>
  /\ pc' = "find_done"
  /\ UNCHANGED <<uargs, img, zip, net, orchExit, avahi, pi>>
  /\ UNCHANGED <<elevVars, cardVars, parseVars, histVars>>

SpecFind == InitFind /\ [][FindMain]_vars

---------------------------------------------------------------------------
(* Reply parsing in isolation: every reply of up to MaxReplyLen tokens      *)

Replies == UNION {[1..n -> Atoms] : n \in 0..MaxReplyLen}

InitParse ==
  /\ pc = "parse"
  /\ txt \in Replies
  /\ mret = NoMatch
  /\ user = [key |-> NoneVal, wifi |-> <<>>, five |-> FALSE, skip |-> FALSE,
             dev |-> <<"/dev/", "sd", "b">>]
  /\ uargs = DefaultArgs(NoneVal)
  /\ args = DefaultArgs(NoneVal)
  /\ img = "complete"
  /\ zip = "absent"
  /\ nodes = {}
  /\ mounted = {}
  /\ fs = ImageFs
  /\ outside = {}
  /\ todo = <<>>
  /\ ret = TRUE
  /\ caller = "none"
  /\ boot = <<>>
  /\ root = <<>>
  /\ polls = 0
  /\ log = <<>>
  /\ ulog = <<>>
  /\ exit = "none"
  /\ orchExit = "none"
  /\ runs = 1
  /\ prev = NoPrev
  /\ net = 0
  /\ pi = NotBooted
  /\ avahi = <<>>
  /\ stdout = <<>>

\* mount(): the regular expressions applied to txt
ParseReply ==
  /\ pc = "parse"
  /\ mret' = MountResult(txt)
  /\ pc' = "parsed"
  /\ UNCHANGED <<txt, uargs, img, zip, net, orchExit>>
  /\ UNCHANGED <<elevVars, cardVars, histVars, otherVars>>

SpecParse == InitParse /\ [][ParseReply]_vars

---------------------------------------------------------------------------
(* Properties *)

At(op) == {i \in 1..Len(log) : log[i].op = op}
OkAt(op) == {i \in At(op) : log[i].ok}
Wrote(file) == \E i \in At("write") : log[i].arg = <<file>>
SyncAt(site) == {i \in At("sync") : log[i].arg = <<site>>}

\* C1: in every run of flash() the image write comes after UnmountAll has
\* returned, no flush comes before the write has completed, the table reload
\* comes after the first flush, and the first existence check of the second
\* partition comes after the table reload and the flush that follows it.
C1_FlashOrder ==
  /\ \A i \in At("dd") :
       \E j \in At("umount_ret") : j < i /\ log[j].arg = <<"flash_umount">>
  /\ ~args.skip_flash =>
       \A i \in At("sync") : \E j \in OkAt("dd") : j < i
  /\ \A i \in At("partprobe") :
       \E j \in OkAt("sync") : j < i /\ log[j].arg = <<"sync1">>
  /\ \A i \in At("stat") :
       \E j \in OkAt("partprobe") : \E k \in OkAt("sync") :
         j < k /\ k < i /\ log[k].arg = <<"sync2">>

\* flash() has reached PartitionReady
C1_Witness ==
  /\ pc = "root_umount"
  /\ \E i \in OkAt("stat") : i = Len(log)

\* C2: umount(device) issues an unmount for every partition node that existed
\* under the device path when it was called, whatever the outcome of the
\* earlier ones, never for the device path itself, and its ret is TRUE exactly
\* when every unmount so far succeeded (so it returns TRUE iff all of them did).
C2_UmountAll ==
  pc = "umount_loop" =>
    LET parts == log[Len(log)].arg[2]      \* the partition nodes at the call
        rest == SelectSeq(todo, LAMBDA q : q # args.path)
        issued == [i \in 1..Len(ulog) |-> ulog[i].path]
    IN /\ issued \o rest = parts
       /\ \A i \in 1..Len(parts) : IsPrefix(args.path, parts[i])
       /\ \A i \in 1..Len(ulog) : ulog[i].path # args.path
       /\ ret = (\A i \in 1..Len(ulog) : ulog[i].ok)
       /\ todo = <<>> => issued = parts

\* umount() is about to return after a failed unmount followed by a
\* successful one
C2_Witness ==
  /\ pc = "umount_loop"
  /\ todo = <<>>
  /\ Len(ulog) = 2
  /\ ~ulog[1].ok
  /\ ulog[2].ok
  /\ ~ret

\* The two reply grammars of the Mount Coordinator.
\* (a) "Mounted X at PATH.": X free of blanks, PATH free of backslashes
GrammarA(t) ==
  LET n == Len(t)
  IN /\ n >= 5
     /\ t[1] = A_Mounted
     /\ t[n] = A_dot
     /\ \E k \in 3..(n - 2) :
          /\ t[k] = A_at
          /\ \A j \in 2..(k - 1) : ~HasSpace(t[j])
          /\ \A j \in (k + 1)..(n - 1) : t[j] # A_bslash

PathA(t) ==
  LET k == Min({j \in 2..Len(t) : HasSpace(t[j])})
  IN SubSeq(t, k + 1, Len(t) - 1)

\* (b) any diagnostic text, then "is already mounted at", a back-tick, PATH,
\* a quote
GrammarB(t) ==
  \E i \in 1..Len(t) :
    /\ t[i] = A_already
    /\ \A j \in 1..(i - 1) : t[j] # A_already
    /\ \E q \in (i + 2)..Len(t) :
         t[q] = A_quote /\ \A j \in (i + 1)..(q - 1) : t[j] # A_quote

PathB(t) ==
  LET i == Min({j \in 1..Len(t) : t[j] = A_already})
      q == Min({j \in (i + 1)..Len(t) : t[j] = A_quote})
  IN SubSeq(t, i + 1, q - 1)

Recognized(t) == GrammarA(t) \/ GrammarB(t)
Embedded(t) == IF GrammarA(t) THEN PathA(t) ELSE PathB(t)

\* C3: for every reply matching grammar (a) or (b), with whatever text before
\* "is already mounted at", mount() returns exactly the embedded path; for
\* every other reply it fails.
C3_ParsesBothGrammars ==
  pc = "parsed" =>
    IF Recognized(txt)
    THEN mret = [ok |-> TRUE, path |-> Embedded(txt)]
    ELSE ~mret.ok

\* C4: no Provisioner step runs unless mount(boot) and mount(root) have both
\* returned the path embedded in a recognized reply; a mount command that
\* fails, or a reply that is not recognized, ends the run with a non-zero
\* exit and without any mutation of the trees.
C4_NoProvisionWithoutMounts ==
  /\ At("write") # {} =>
       \E b \in OkAt("mount") : \E r \in OkAt("mount") :
         /\ b < r
         /\ r < Min(At("write"))
         /\ log[b].path = BootPath(args.path)
         /\ log[r].path = RootPath(args.path)
         /\ Recognized(log[b].arg)
         /\ Recognized(log[r].arg)
         /\ boot = Embedded(log[b].arg)
         /\ root = Embedded(log[r].arg)
  /\ \A i \in At("mount") :
       (~log[i].ok \/ ~Recognized(log[i].arg)) =>
         /\ pc = "failed"
         /\ exit = "nonzero"
         /\ i = Len(log)
         /\ At("write") = {}

\* the boot partition was mounted, the reply to mount(root) is not recognized,
\* and the run has ended
C4_Witness ==
  /\ pc = "failed"
  /\ Len(log) >= 2
  /\ log[Len(log)].op = "mount"
  /\ log[Len(log)].ok
  /\ ~Recognized(log[Len(log)].arg)
  /\ log[Len(log) - 1].op = "mount"
  /\ log[Len(log) - 1].ok

FlashCommand(e) ==
  \/ e.op \in {"dd", "partprobe"}
  \/ e.op = "sync" /\ e.arg \in {<<"sync1">>, <<"sync2">>}

\* C5: when the image write, either flush of flash() or the table reload exits
\* non-zero, that command has run once, it is the last thing the run does, and
\* the elevated instance and the orchestrator end with a non-zero status.
C5_FatalNoRetry ==
  \A i \in 1..Len(log) :
    (FlashCommand(log[i]) /\ ~log[i].ok) =>
      /\ i = Len(log)
      /\ pc = "failed"
      /\ exit = "nonzero"
      /\ orchExit = "nonzero"
      /\ Cardinality({j \in 1..Len(log) :
                        log[j].op = log[i].op /\ log[j].arg = log[i].arg}) = 1

\* the flush after the table reload has failed
C5_Witness ==
  /\ log # <<>>
  /\ log[Len(log)].op = "sync"
  /\ log[Len(log)].arg = <<"sync2">>
  /\ ~log[Len(log)].ok

InPoll == pc \in {"poll_stat", "poll_sleep"}
Node2Exists == KernelNode(user.dev, 2) \in nodes
AfterFlash ==
  ~args.skip_flash /\ pc \in {"root_umount", "mount_boot", "mount_root",
    "first_boot", "five", "ssh", "wifi", "final_sync", "final_umount", "done"}

\* flash() is past its poll only if a check saw the node of partition 2; every
\* failed check is followed by a sleep and then by another check; nothing is
\* mounted or written before a check has succeeded
C6_PollSafety ==
  /\ (AfterFlash \/ At("mount") # {} \/ At("write") # {}) /\ ~args.skip_flash =>
       \E i \in OkAt("stat") : log[i].path = KernelNode(user.dev, 2)
  /\ \A i \in At("stat") :
       /\ log[i].ok => log[i].path \in ImageParts(user.dev)
       /\ ~log[i].ok =>
            /\ i < Len(log) => log[i + 1].op = "sleep"
            /\ i + 1 < Len(log) => log[i + 2].op = "stat"
            /\ i = Len(log) => pc = "poll_sleep"
  /\ InPoll => polls = Cardinality(At("stat") \ OkAt("stat"))

\* C6: the partition-ready poll has no bound on attempts: flash() returns only
\* after a check has seen the node of the second partition, it keeps checking
\* with a sleep between checks while the node is absent, and once the node
\* exists for good flash() eventually leaves the poll.
C6_PollUntilReady ==
  /\ []C6_PollSafety
  /\ []([]Node2Exists => <>(~InPoll))

\* flash() has returned after MaxPolls failed checks and a successful one
C6_Witness ==
  /\ pc = "root_umount"
  /\ polls = MaxPolls
  /\ log[Len(log)].op = "stat"
  /\ log[Len(log)].ok

MountRequest(at, path) == pc = at /\ pc' # at /\ path \in mounted

\* C7: in every run of the elevated instance a mount request is never issued
\* for a partition that is mounted at that moment, whatever the unmount
\* commands before it returned.
C7_NeverMountsMounted ==
  [][/\ ~MountRequest("mount_boot", BootPath(args.path))
     /\ ~MountRequest("mount_root", RootPath(args.path))]_vars

\* C7: every mount request comes after the UnmountAll pass of as_root() has
\* returned, with nothing but mount requests in between, whatever that pass
\* achieved; a run asks for the boot partition and then for the root partition,
\* once each; the partition may still be mounted when the request is made.
C7_MountAfterUnmountPass ==
  /\ \A i \in At("mount") :
       /\ log[i].path \in {BootPath(args.path), RootPath(args.path)}
       /\ \E j \in At("umount_ret") :
            /\ j < i
            /\ log[j].arg = <<"root_umount">>
            /\ \A k \in (j + 1)..(i - 1) : log[k].op = "mount"
       /\ \A j \in At("mount") : log[j].path = log[i].path => j = i
       /\ log[i].path = RootPath(args.path) =>
            /\ i > 1
            /\ log[i - 1].op = "mount"
            /\ log[i - 1].ok
            /\ log[i - 1].path = BootPath(args.path)
  /\ pc \in {"mount_boot", "mount_root"} =>
       \E j \in At("umount_ret") : log[j].arg = <<"root_umount">>

\* no flashing and so no node comes or goes: the pass of as_root() has left
\* the root partition mounted, mount(boot) was answered, mount(root) is next
C7_Witness ==
  /\ args.skip_flash
  /\ pc = "mount_root"
  /\ RootPath(args.path) \in mounted
  /\ BootPath(args.path) \in mounted
  /\ log[Len(log)].op = "mount"
  /\ log[Len(log)].ok
  /\ log[Len(log) - 1].op = "umount_ret"

Elevated == pc \notin {"main", "fetch_img", "sudo", "orch_failed", "parse", "parsed"}

\* C8: with --skip-flash the elevated instance runs no image write, no flush
\* or table reload of flash() and no partition-ready check, so the card is not
\* overwritten; a run that completes has done UnmountAll, mounted boot and
\* root, run the Provisioner, flushed and done the final UnmountAll.
C8_SkipFlashBypass ==
  (user.skip /\ Elevated) =>
    /\ args.skip_flash
    /\ polls = 0
    /\ \A i \in 1..Len(log) :
         /\ log[i].op \notin {"dd", "partprobe", "stat", "sleep"}
         /\ log[i].op = "sync" => log[i].arg = <<"final_sync">>
         /\ log[i].op = "umount_ret" => log[i].arg # <<"flash_umount">>
    /\ pc = "done" =>
         LET n == Len(log)
         IN /\ n >= 10
            /\ log[1].op = "umount_begin"
            /\ log[2].op = "umount_ret" /\ log[2].arg = <<"root_umount">>
            /\ log[3].op = "mount" /\ log[3].ok
            /\ log[3].path = BootPath(args.path)
            /\ log[4].op = "mount" /\ log[4].ok
            /\ log[4].path = RootPath(args.path)
            /\ \A i \in 5..(n - 3) : log[i].op = "write"
            /\ Wrote("firstboot") /\ Wrote("rc_local_old") /\ Wrote("rc_local")
            /\ log[n - 2].op = "sync" /\ log[n - 2].ok
            /\ log[n - 1].op = "umount_begin"
            /\ log[n].op = "umount_ret" /\ log[n].arg = <<"final_umount">>
            /\ exit = "zero"

\* a run with --skip-flash has completed
C8_Witness ==
  /\ pc = "done"
  /\ user.skip
  /\ args.skip_flash
  /\ At("mount") # {}

SshFiles == {"sshdir", "authorized_keys", "sshd_config", "ssh_marker"}
Mandatory == {"firstboot", "rc_local_old", "rc_local"}
Written == {log[i].arg[1] : i \in At("write")}
NoFlags == user.key = NoneVal /\ user.wifi = <<>> /\ ~user.five

\* C9: a run with no --ssh-key, no --wifi and no --5inch writes the first-boot
\* hook files only; each optional artifact is written if and only if its own
\* flag was given.
C9_ArtifactIffFlag ==
  /\ NoFlags => Written \subseteq Mandatory
  /\ Written \cap SshFiles # {} => user.key # NoneVal
  /\ "supplicant" \in Written => user.wifi # <<>>
  /\ "config_txt" \in Written => user.five
  /\ pc = "done" =>
       /\ user.key # NoneVal => SshFiles \subseteq Written
       /\ user.wifi # <<>> => "supplicant" \in Written
       /\ user.five => "config_txt" \in Written

\* C9: the elevated instance gets the key path, the Wi-Fi pair and the
\* display flag the orchestrator resolved; the SSH files are written only for
\* a non-empty key path, which is the value of --ssh-key or, without the flag,
\* the first public key found in ~/.ssh; the supplicant file only with --wifi;
\* the boot configuration only with --5inch; a completed run has written the
\* hook files and exactly the artifacts so selected; without --ssh-key and
\* without a key in ~/.ssh nothing is elevated.
C9_ArtifactsFollowRequest ==
  /\ Elevated =>
       /\ args.ssh_key = uargs.ssh_key
       /\ args.wifi = user.wifi
       /\ args.five_inches = user.five
       /\ uargs.ssh_key # NoneVal
  /\ pc # "main" =>
       uargs.ssh_key = IF user.key # NoneVal THEN user.key
                       ELSE uargs.ssh_key
  /\ (pc # "main" /\ user.key = NoneVal) =>
       \E home \in HomeDirs : uargs.ssh_key = find_public_key(home)
  /\ (pc # "main" /\ uargs.ssh_key = NoneVal) => (~Elevated /\ log = <<>>)
  /\ Written \cap SshFiles # {} => Truthy(args.ssh_key)
  /\ "supplicant" \in Written => user.wifi # <<>>
  /\ "config_txt" \in Written => user.five
  /\ pc = "done" =>
       /\ Mandatory \subseteq Written
       /\ Truthy(args.ssh_key) <=> SshFiles \subseteq Written
       /\ user.wifi # <<>> <=> "supplicant" \in Written
       /\ user.five <=> "config_txt" \in Written
       /\ ~Truthy(args.ssh_key) =>
            /\ fs.authorized_keys = Absent
            /\ fs.sshd_config = ImageFs.sshd_config
            /\ fs.boot_ssh = Absent
       /\ user.wifi = <<>> => fs.supplicant = ImageFs.supplicant
       /\ ~user.five => fs.config_txt = ImageFs.config_txt

\* a run without any optional flag has completed and has installed the key
\* it found in ~/.ssh
C9_Witness ==
  /\ pc = "done"
  /\ NoFlags
  /\ "authorized_keys" \in Written
  /\ fs.authorized_keys # Absent
  /\ fs.sshd_config # ImageFs.sshd_config

SameRequest(a, b) == [a EXCEPT !.skip_flash = FALSE] = [b EXCEPT !.skip_flash = FALSE]

\* a second run with --skip-flash, for the same request and on the same mount
\* paths as the run before it, has completed
SecondRunDone ==
  /\ pc = "done"
  /\ prev.done
  /\ args.skip_flash
  /\ SameRequest(args, prev.args)
  /\ boot = prev.boot
  /\ root = prev.root

\* C10: the Provisioner run a second time on the same trees for the same
\* request leaves every file as the first run left it.
C10_Idempotent ==
  SecondRunDone => (fs = prev.fs /\ outside = prev.outside)

\* the display step has run to its end
Enabled5 == pc = "five" /\ pc' \notin {"five", "failed"}

\* C11: the display-overlay step leaves the boot configuration file with its
\* previous content, unchanged, followed by the overlay block.
C11_OverlayAppended ==
  [][Enabled5 => fs'.config_txt = Append(fs.config_txt, RASPBIAN_FIVE_INCHES_DISPLAY)]_vars

\* C12: once setup_ssh has written the SSH marker, the boot partition holds
\* an entry named ssh and nothing was created outside the mounted trees,
\* whatever the form of the boot mount path.
C12_MarkerInBoot ==
  "ssh_marker" \in Written => (fs.boot_ssh # Absent /\ outside = {})

\* C13: over any sequence of boots and power losses, a power loss during the
\* first-boot script included, the hook starts the first-boot script at most
\* once: once it has been started no later boot starts it again.
C13_RunsOnce == pi.starts <= 1

SameParse ==
  /\ args.as_root
  /\ args.img = RASPBIAN_JESSIE_LITE_IMG
  /\ args.path = uargs.path
  /\ args.distro = uargs.distro
  /\ args.ssh_key = uargs.ssh_key
  /\ args.wifi = uargs.wifi
  /\ args.five_inches = uargs.five_inches
  /\ args.skip_flash = uargs.skip_flash

\* C14: for every request the orchestrator has parsed and resolved an image
\* for, it starts the elevated instance (it fails in the acquisition only),
\* the elevated instance parses the same device, distribution, key path,
\* Wi-Fi pair and flags plus the marker and the image path, and the
\* orchestrator ends with the status of the elevated instance.
C14_ElevatesSameRequest ==
  /\ pc = "orch_failed" => img # "complete"
  /\ Elevated => (SameParse /\ orchExit = exit)

\* C15: a fetch_img() that finds a file under the image name goes on to the
\* elevation without a download and without touching the image file or the
\* archive; once the image is complete no later run downloads or changes it.
C15_CachedFetchIsNoop ==
  [][/\ (pc = "fetch_img" /\ img # "absent" /\ pc' # pc) =>
          (pc' = "sudo" /\ img' = img /\ zip' = zip /\ net' = net /\ uargs' = uargs)
     /\ img = "complete" => (img' = img /\ net' = net)]_vars

\* the first run downloaded and extracted the image; the second run is past
\* fetch_img() and there has been no other download
C15_Witness ==
  /\ runs = 2
  /\ pc = "sudo"
  /\ img = "complete"
  /\ net = 1

\* C16: whenever fetch_img() has returned an image name, the file under that
\* name is a completely extracted image, also after earlier runs whose
\* download or extraction failed.
C16_NoPartialImage ==
  (pc = "sudo" \/ Elevated) => img = "complete"

\* partition n of a device by the documented convention
Documented(dev, n) ==
  IF Contains(dev, "mmcblk") THEN dev \o <<"p", n>> ELSE dev \o <<n>>

\* C17: partition n of an mmcblkN device is device + 'p' + n and of an sdX
\* device it is device + n; the path flash() polls is the partition-2 path
\* as_root() mounts as root, and the boot path is partition 1 by the same
\* convention, in every run.
C17_PartitionPaths ==
  /\ \A dev \in Devices :
       /\ PollPath(dev) = Documented(dev, "2")
       /\ RootPath(dev) = Documented(dev, "2")
       /\ BootPath(dev) = Documented(dev, "1")
  /\ \A i \in At("stat") : log[i].path = Documented(user.dev, "2")
  /\ \A i \in At("mount") :
       /\ log[i].path \in {Documented(user.dev, "1"), Documented(user.dev, "2")}
       /\ log[i].path = Documented(user.dev, "2") =>
            /\ \A j \in At("stat") : log[j].path = log[i].path
            /\ \E b \in At("mount") : b < i /\ log[b].path = Documented(user.dev, "1")
       /\ log[i].ok => log[i].path \in nodes

\* a run on an mmcblk card has flashed, polled and mounted both partitions
C17_Witness ==
  /\ pc = "first_boot"
  /\ Contains(user.dev, "mmcblk")
  /\ OkAt("stat") # {}
  /\ Cardinality(OkAt("mount")) = 2

\* C18: a run with --skip-flash downloads nothing and extracts nothing, also
\* when the cached image file is absent.
C18_SkipFlashNoDownload ==
  user.skip => (net = 0 /\ (pc # "main" => uargs.skip_flash))

Reported(r) == r.kind = "=" /\ r.proto = "IPv4"

\* one line 'hostname: ip_address' per resolved IPv4 record, in order
RECURSIVE Expected(_)
Expected(rs) ==
  IF rs = <<>> THEN <<>>
  ELSE (IF Reported(Head(rs)) THEN <<Head(rs).host, ": ", Head(rs).addr, A_nl>>
        ELSE <<>>)
       \o Expected(Tail(rs))

\* C19: the report prints exactly one line 'hostname: ip_address' for every
\* resolved record whose third field is IPv4, in the order of the records,
\* and nothing else.
C19_OneLinePerRecord ==
  pc = "find_done" => stdout = Expected(avahi)

\* C19: the report prints one line 'hostname: ip_address' for every resolved
\* record whose third field is IPv4, in the order of the records, and no line
\* for any other record; when no record is reported it prints one empty line.
C19_LinesOrEmptyLine ==
  pc = "find_done" =>
    stdout = IF \E i \in 1..Len(avahi) : Reported(avahi[i])
             THEN Expected(avahi) ELSE <<A_nl>>

\* two IPv4 records with an IPv6 record between them have been reported
C19_Witness ==
  /\ pc = "find_done"
  /\ Len(avahi) >= 3
  /\ Reported(avahi[1])
  /\ avahi[2].kind = "=" /\ avahi[2].proto = "IPv6"
  /\ Reported(avahi[3])
  /\ avahi[1].host # avahi[3].host
  /\ stdout = <<avahi[1].host, ": ", avahi[1].addr, A_nl,
                avahi[3].host, ": ", avahi[3].addr, A_nl>>

\* C20: when the elevated instance has finished with status zero, no partition
\* of the card is mounted.
C20_NothingMountedAtEnd ==
  (pc = "done" /\ exit = "zero") => mounted = {}

====
